---- MODULE Spec2Model ----
(***************************************************************************)
(* Owner-API secure channel of epic-wallet (api/src/types.rs):             *)
(* EncryptedBody, RpcId, EncryptedRequest, EncryptedResponse and           *)
(* EncryptionErrorResponse.                                                *)
(*                                                                         *)
(* Text (Rust String) is a sequence of code points, a byte buffer (Vec<u8>)*)
(* a sequence of numbers 0..255.  The library calls the code makes         *)
(* (serde_json, base64, hex, String::from_utf8, ring's AEAD) are operators *)
(* that compute what the call computes.  ring's AES_256_GCM is replaced by *)
(* a stand-in cipher of the same shape: a keystream XORed in place, and a  *)
(* 16-byte polynomial tag over key, nonce and ciphertext.                  *)
(***************************************************************************)
EXTENDS Integers, Sequences, FiniteSets, TLC

\* ---------------------------------------------------------------- bounds
NumKeys == 2
NumNonces == 2
NumThreads == 2
MaxId == 1

\* ------------------------------------------------------ program constants
KeyLen == 32
NonceLen == 12
TagLen == 16
FallbackCode == 0 - 32000

\* ------------------------------------------------------------- results
\* Result<T, Error>: Ok(val) or Err(ErrorKind::APIEncryption(msg)); a
\* panic (unwrap on None) is a third outcome, which ends the process.
Ok(v) == [kind |-> "Ok", val |-> v, err |-> ""]
Err(msg) == [kind |-> "Err", val |-> <<>>, err |-> msg]
Panic(msg) == [kind |-> "Panic", val |-> <<>>, err |-> msg]
IsOk(r) == r.kind = "Ok"
Unwrap(r) == r.val

\* r.context(ErrorKind::APIEncryption(msg)): an error becomes msg.
Context(r, msg) == IF r.kind = "Ok" THEN r ELSE Err(msg)

\* Option<T>: Some(v) or None.
Some(v) == [some |-> TRUE, v |-> v]
None == [some |-> FALSE, v |-> <<>>]

\* --------------------------------------------------------------- bytes
RECURSIVE Xor(_, _)
Xor(a, b) ==
  IF a = 0 THEN b
  ELSE IF b = 0 THEN a
  ELSE 2 * Xor(a \div 2, b \div 2) + ((a + b) % 2)

Pow2(b) == CASE b = 0 -> 1 [] b = 1 -> 2 [] b = 2 -> 4 [] b = 3 -> 8
             [] b = 4 -> 16 [] b = 5 -> 32 [] b = 6 -> 64 [] OTHER -> 128

Tail_n(s, n) == SubSeq(s, n + 1, Len(s))

\* The bytes f[1], f[2], ... as a buffer.
Vec(f) == f \o <<>>
Take(s, n) == SubSeq(s, 1, n)

\* ----------------------------------------------------------------- hex
HexDigit(n) == IF n < 10 THEN 48 + n ELSE 87 + n

\* util::to_hex: two lower-case hex digits per byte.
RECURSIVE to_hex(_)
to_hex(bytes) ==
  IF bytes = <<>> THEN <<>>
  ELSE <<HexDigit(bytes[1] \div 16), HexDigit(bytes[1] % 16)>> \o to_hex(Tail(bytes))

\* u8::from_str_radix(_, 16) of one digit: 0-9, a-f, A-F; -1 otherwise.
HexVal(c) ==
  IF c >= 48 /\ c <= 57 THEN c - 48
  ELSE IF c >= 97 /\ c <= 102 THEN c - 87
  ELSE IF c >= 65 /\ c <= 70 THEN c - 55
  ELSE 0 - 1

RECURSIVE HexPairs(_)
HexPairs(s) ==
  IF s = <<>> THEN Ok(<<>>)
  ELSE IF HexVal(s[1]) < 0 \/ HexVal(s[2]) < 0 THEN Err("ParseIntError")
  ELSE LET rest == HexPairs(Tail_n(s, 2))
       IN IF IsOk(rest) THEN Ok(<<HexVal(s[1]) * 16 + HexVal(s[2])>> \o Unwrap(rest))
          ELSE rest

\* util::from_hex: an odd length or a non-hex digit is an error.
from_hex(s) == IF Len(s) % 2 = 1 THEN Err("ParseIntError") ELSE HexPairs(s)

\* -------------------------------------------------------------- base64
\* The standard alphabet A-Z a-z 0-9 + / with = padding.
B64Char(i) ==
  IF i < 26 THEN 65 + i
  ELSE IF i < 52 THEN 97 + (i - 26)
  ELSE IF i < 62 THEN 48 + (i - 52)
  ELSE IF i = 62 THEN 43 ELSE 47

B64Val(c) ==
  IF c >= 65 /\ c <= 90 THEN c - 65
  ELSE IF c >= 97 /\ c <= 122 THEN c - 97 + 26
  ELSE IF c >= 48 /\ c <= 57 THEN c - 48 + 52
  ELSE IF c = 43 THEN 62
  ELSE IF c = 47 THEN 63
  ELSE 0 - 1

RECURSIVE base64_encode(_)
base64_encode(b) ==
  IF b = <<>> THEN <<>>
  ELSE IF Len(b) = 1 THEN
    <<B64Char(b[1] \div 4), B64Char((b[1] % 4) * 16), 61, 61>>
  ELSE IF Len(b) = 2 THEN
    <<B64Char(b[1] \div 4), B64Char(((b[1] % 4) * 16) + (b[2] \div 16)),
      B64Char((b[2] % 16) * 4), 61>>
  ELSE
    <<B64Char(b[1] \div 4), B64Char(((b[1] % 4) * 16) + (b[2] \div 16)),
      B64Char(((b[2] % 16) * 4) + (b[3] \div 64)), B64Char(b[3] % 64)>>
    \o base64_encode(Tail_n(b, 3))

RECURSIVE B64Groups(_)
B64Groups(s) ==
  IF s = <<>> THEN Ok(<<>>)
  ELSE
    LET a == B64Val(s[1])
        b == B64Val(s[2])
        c == B64Val(s[3])
        d == B64Val(s[4])
        last == Len(s) = 4
    IN IF a < 0 \/ b < 0 THEN Err("InvalidByte")
       ELSE IF last /\ s[3] = 61 /\ s[4] = 61 THEN
         Ok(<<(a * 4) + (b \div 16)>>)
       ELSE IF c < 0 THEN Err("InvalidByte")
       ELSE IF last /\ s[4] = 61 THEN
         Ok(<<(a * 4) + (b \div 16), ((b % 16) * 16) + (c \div 4)>>)
       ELSE IF d < 0 THEN Err("InvalidByte")
       ELSE LET rest == B64Groups(Tail_n(s, 4))
            IN IF IsOk(rest)
               THEN Ok(<<(a * 4) + (b \div 16), ((b % 16) * 16) + (c \div 4), ((c % 4) * 64) + d>>
                       \o Unwrap(rest))
               ELSE rest

\* base64::decode: the length is a multiple of four, every symbol is of the
\* alphabet, padding only ends the last group.
base64_decode(s) == IF Len(s) % 4 # 0 THEN Err("InvalidLength") ELSE B64Groups(s)

\* --------------------------------------------------------------- UTF-8
IsCont(b) == b >= 128 /\ b <= 191

\* str::as_bytes of a String whose code points are below 0x800.
RECURSIVE as_bytes(_)
as_bytes(s) ==
  IF s = <<>> THEN <<>>
  ELSE (IF s[1] < 128 THEN <<s[1]>>
        ELSE <<192 + (s[1] \div 64), 128 + (s[1] % 64)>>) \o as_bytes(Tail(s))

\* String::from_utf8: the code points, or Utf8Error.
RECURSIVE from_utf8(_)
from_utf8(b) ==
  IF b = <<>> THEN Ok(<<>>)
  ELSE IF b[1] < 128 THEN
    LET rest == from_utf8(Tail(b))
    IN IF IsOk(rest) THEN Ok(<<b[1]>> \o Unwrap(rest)) ELSE rest
  ELSE IF b[1] >= 194 /\ b[1] <= 223 /\ Len(b) >= 2 /\ IsCont(b[2]) THEN
    LET rest == from_utf8(Tail_n(b, 2))
    IN IF IsOk(rest) THEN Ok(<<(b[1] - 192) * 64 + (b[2] - 128)>> \o Unwrap(rest))
       ELSE rest
  ELSE IF b[1] >= 224 /\ b[1] <= 239 /\ Len(b) >= 3 /\ IsCont(b[2]) /\ IsCont(b[3])
          /\ (b[1] = 224 => b[2] >= 160) /\ (b[1] = 237 => b[2] <= 159) THEN
    LET rest == from_utf8(Tail_n(b, 3))
    IN IF IsOk(rest)
       THEN Ok(<<(b[1] - 224) * 4096 + (b[2] - 128) * 64 + (b[3] - 128)>> \o Unwrap(rest))
       ELSE rest
  ELSE Err("Utf8Error")

\* ---------------------------------------------------------------- JSON
\* serde_json::Value, one record shape for every variant: t the variant,
\* n the number or boolean, s the string, ks/a the keys and values of an
\* object (keys kept sorted, as in serde_json's Map) or a the elements of an
\* array.  Numbers are integers.
JNull == [t |-> "null", n |-> 0, s |-> <<>>, ks |-> <<>>, a |-> <<>>]
JBool(b) == [t |-> "bool", n |-> IF b THEN 1 ELSE 0, s |-> <<>>, ks |-> <<>>, a |-> <<>>]
JNum(i) == [t |-> "num", n |-> i, s |-> <<>>, ks |-> <<>>, a |-> <<>>]
JStr(str) == [t |-> "str", n |-> 0, s |-> str, ks |-> <<>>, a |-> <<>>]
JArr(elems) == [t |-> "arr", n |-> 0, s |-> <<>>, ks |-> <<>>, a |-> elems]
JObj(keys, vals) == [t |-> "obj", n |-> 0, s |-> <<>>, ks |-> keys, a |-> vals]

\* Ord for String: lexicographic.
RECURSIVE StrLess(_, _)
StrLess(x, y) ==
  IF y = <<>> THEN FALSE
  ELSE IF x = <<>> THEN TRUE
  ELSE IF x[1] # y[1] THEN x[1] < y[1]
  ELSE StrLess(Tail(x), Tail(y))

\* Map::insert: the keys stay sorted, a key already there gets the new value.
RECURSIVE MapInsert(_, _, _)
MapInsert(o, k, v) ==
  IF o.ks = <<>> THEN JObj(<<k>>, <<v>>)
  ELSE IF o.ks[1] = k THEN JObj(o.ks, <<v>> \o Tail(o.a))
  ELSE IF StrLess(k, o.ks[1]) THEN JObj(<<k>> \o o.ks, <<v>> \o o.a)
  ELSE LET rest == MapInsert(JObj(Tail(o.ks), Tail(o.a)), k, v)
       IN JObj(<<o.ks[1]>> \o rest.ks, <<o.a[1]>> \o rest.a)

\* Map::get
RECURSIVE MapGet(_, _)
MapGet(o, k) ==
  IF o.ks = <<>> THEN None
  ELSE IF o.ks[1] = k THEN Some(o.a[1])
  ELSE MapGet(JObj(Tail(o.ks), Tail(o.a)), k)

RECURSIVE Digits(_)
Digits(n) == IF n < 10 THEN <<48 + n>> ELSE Digits(n \div 10) \o <<48 + (n % 10)>>

\* The least index of s from i on whose character is in stops, or
\* Len(s) + 1.
Scan(s, i, stops) ==
  LET hits == {j \in i..Len(s) : s[j] \in stops}
  IN IF hits = {} THEN Len(s) + 1
     ELSE CHOOSE j \in hits : \A k \in hits : j <= k

\* Runs of plain characters are copied; a quote, a backslash and a line
\* feed are escaped.
RECURSIVE Escape(_)
Escape(str) ==
  LET j == Scan(str, 1, {34, 92, 10})
  IN IF j > Len(str) THEN str
     ELSE SubSeq(str, 1, j - 1)
          \o (IF str[j] = 34 THEN <<92, 34>>
              ELSE IF str[j] = 92 THEN <<92, 92>>
              ELSE <<92, 110>>)
          \o Escape(SubSeq(str, j + 1, Len(str)))

Quoted(str) == <<34>> \o Escape(str) \o <<34>>

\* serde_json::to_string of a Value: compact, no whitespace.
RECURSIVE to_string(_)
RECURSIVE ElemsText(_)
RECURSIVE MembersText(_, _)
to_string(v) ==
  CASE v.t = "null" -> <<110, 117, 108, 108>>
    [] v.t = "bool" -> IF v.n = 1 THEN <<116, 114, 117, 101>> ELSE <<102, 97, 108, 115, 101>>
    [] v.t = "num" -> IF v.n < 0 THEN <<45>> \o Digits(0 - v.n) ELSE Digits(v.n)
    [] v.t = "str" -> Quoted(v.s)
    [] v.t = "arr" -> <<91>> \o ElemsText(v.a) \o <<93>>
    [] OTHER -> <<123>> \o MembersText(v.ks, v.a) \o <<125>>
ElemsText(a) ==
  IF a = <<>> THEN <<>>
  ELSE IF Len(a) = 1 THEN to_string(a[1])
  ELSE to_string(a[1]) \o <<44>> \o ElemsText(Tail(a))
MembersText(ks, a) ==
  IF ks = <<>> THEN <<>>
  ELSE IF Len(ks) = 1 THEN Quoted(ks[1]) \o <<58>> \o to_string(a[1])
  ELSE Quoted(ks[1]) \o <<58>> \o to_string(a[1]) \o <<44>> \o MembersText(Tail(ks), Tail(a))

\* The parser: every step returns [ok, v, p]: the value read and the
\* position after it.
PErr == [ok |-> FALSE, v |-> JNull, p |-> 0]
POk(v, p) == [ok |-> TRUE, v |-> v, p |-> p]

IsDigit(c) == c >= 48 /\ c <= 57

RECURSIVE SkipWs(_, _)
SkipWs(s, i) == IF i <= Len(s) /\ s[i] \in {32, 10, 13, 9} THEN SkipWs(s, i + 1) ELSE i

HasAt(s, i, w) == i + Len(w) - 1 <= Len(s) /\ SubSeq(s, i, i + Len(w) - 1) = w

RECURSIVE ParseDigits(_, _, _)
ParseDigits(s, i, acc) ==
  IF i <= Len(s) /\ IsDigit(s[i]) THEN ParseDigits(s, i + 1, acc * 10 + (s[i] - 48))
  ELSE POk(JNum(acc), i)

\* An integer: an optional minus, then 0 or a digit string without a
\* leading zero.
ParseNumber(s, i) ==
  LET neg == s[i] = 45
      j == IF neg THEN i + 1 ELSE i
  IN IF j > Len(s) \/ ~IsDigit(s[j]) THEN PErr
     ELSE IF s[j] = 48 /\ j + 1 <= Len(s) /\ IsDigit(s[j + 1]) THEN PErr
     ELSE LET r == ParseDigits(s, j, 0)
          IN IF neg THEN POk(JNum(0 - r.v.n), r.p) ELSE r

UnescapeChar(c) ==
  CASE c = 34 -> 34 [] c = 92 -> 92 [] c = 47 -> 47 [] c = 110 -> 10
    [] c = 116 -> 9 [] c = 114 -> 13 [] c = 98 -> 8 [] c = 102 -> 12
    [] OTHER -> 0 - 1

\* The characters of a string, from after its opening quote.
RECURSIVE ParseChars(_, _, _)
ParseChars(s, i, acc) ==
  LET j == Scan(s, i, {34, 92} \cup 0..31)
      run == acc \o SubSeq(s, i, j - 1)
  IN IF j > Len(s) THEN PErr
     ELSE IF s[j] = 34 THEN POk(JStr(run), j + 1)
     ELSE IF s[j] = 92 THEN
       IF j + 1 > Len(s) \/ UnescapeChar(s[j + 1]) < 0 THEN PErr
       ELSE ParseChars(s, j + 2, Append(run, UnescapeChar(s[j + 1])))
     ELSE PErr

RECURSIVE ParseValue(_, _)
RECURSIVE ParseElems(_, _, _)
RECURSIVE ParseMembers(_, _, _)
ParseValue(s, i0) ==
  LET i == SkipWs(s, i0)
  IN IF i > Len(s) THEN PErr
     ELSE IF HasAt(s, i, <<110, 117, 108, 108>>) THEN POk(JNull, i + 4)
     ELSE IF HasAt(s, i, <<116, 114, 117, 101>>) THEN POk(JBool(TRUE), i + 4)
     ELSE IF HasAt(s, i, <<102, 97, 108, 115, 101>>) THEN POk(JBool(FALSE), i + 5)
     ELSE IF s[i] = 34 THEN ParseChars(s, i + 1, <<>>)
     ELSE IF s[i] = 45 \/ IsDigit(s[i]) THEN ParseNumber(s, i)
     ELSE IF s[i] = 91 THEN
       LET j == SkipWs(s, i + 1)
       IN IF j <= Len(s) /\ s[j] = 93 THEN POk(JArr(<<>>), j + 1)
          ELSE ParseElems(s, j, <<>>)
     ELSE IF s[i] = 123 THEN
       LET j == SkipWs(s, i + 1)
       IN IF j <= Len(s) /\ s[j] = 125 THEN POk(JObj(<<>>, <<>>), j + 1)
          ELSE ParseMembers(s, j, JObj(<<>>, <<>>))
     ELSE PErr
ParseElems(s, i, acc) ==
  LET e == ParseValue(s, i)
      j == SkipWs(s, e.p)
  IN IF ~e.ok \/ j > Len(s) THEN PErr
     ELSE IF s[j] = 93 THEN POk(JArr(Append(acc, e.v)), j + 1)
     ELSE IF s[j] = 44 THEN ParseElems(s, j + 1, Append(acc, e.v))
     ELSE PErr
ParseMembers(s, i0, acc) ==
  LET i == SkipWs(s, i0)
  IN IF i > Len(s) \/ s[i] # 34 THEN PErr
     ELSE
       LET k == ParseChars(s, i + 1, <<>>)
           c == SkipWs(s, k.p)
       IN IF ~k.ok \/ c > Len(s) \/ s[c] # 58 THEN PErr
          ELSE
            LET e == ParseValue(s, c + 1)
                j == SkipWs(s, e.p)
                obj == MapInsert(acc, k.v.s, e.v)
            IN IF ~e.ok \/ j > Len(s) THEN PErr
               ELSE IF s[j] = 125 THEN POk(obj, j + 1)
               ELSE IF s[j] = 44 THEN ParseMembers(s, j + 1, obj)
               ELSE PErr

\* serde_json::from_str::<Value>: one value, then nothing but whitespace.
ParseEnd(s, r) ==
  IF r.ok /\ SkipWs(s, r.p) > Len(s) THEN Ok(r.v) ELSE Err("serde_json::Error")

from_str(s) == ParseEnd(s, ParseValue(s, 1))

\* ---------------------------------------------------------------- AEAD
\* The stand-in for ring::aead with AES_256_GCM.  KeyStream plays AES-CTR,
\* Tag plays GHASH: a polynomial in the ciphertext bytes over the field of
\* 251 elements, at a point and with a mask that depend on key and nonce,
\* so that a change of one ciphertext byte changes every tag byte.
RECURSIVE Mix(_, _)
Mix(seq, i) ==
  IF i > Len(seq) THEN 0 ELSE (seq[i] * i + Mix(seq, i + 1)) % 251

KeyStream(km, nm, i) == (km * (i + 1) + nm * (2 * i + 1) + 7 * i * i + 13) % 256

Crypt(key, nonce, data) ==
  LET km == Mix(key, 1)
      nm == Mix(nonce, 1)
  IN Vec([i \in 1..Len(data) |-> Xor(data[i], KeyStream(km, nm, i))])

RECURSIVE Poly(_, _, _)
Poly(ct, h, i) ==
  IF i > Len(ct) THEN 0 ELSE ((ct[i] + 1 + Poly(ct, h, i + 1)) * h) % 251

Tag(key, nonce, ct) ==
  LET km == Mix(key, 1)
      nm == Mix(nonce, 1)
  IN Vec([j \in 1..TagLen |->
        (3 * km + 5 * nm + 7 * j + Len(ct) + Poly(ct, 1 + ((km + nm + j) % 250), 1)) % 251])

Zeros(n) == Vec([i \in 1..n |-> 0])

\* aead::SealingKey::new / aead::OpeningKey::new: the key has the
\* algorithm's key length.
SealingKey_new(key_bytes) ==
  IF Len(key_bytes) = KeyLen THEN Ok(key_bytes) ELSE Err("Unspecified")

OpeningKey_new(key_bytes) ==
  IF Len(key_bytes) = KeyLen THEN Ok(key_bytes) ELSE Err("Unspecified")

\* aead::seal_in_place(key, nonce, ad = [], in_out, out_suffix_capacity):
\* encrypts all of in_out but its suffix and writes the tag into the suffix.
\* [res, buf]: the result and the buffer afterwards.
seal_in_place(key, nonce, in_out, out_suffix_capacity) ==
  IF Len(nonce) # NonceLen \/ Len(in_out) < out_suffix_capacity
     \/ out_suffix_capacity < TagLen
  THEN [res |-> Err("Unspecified"), buf |-> in_out]
  ELSE LET n == Len(in_out) - out_suffix_capacity
           ct == Crypt(key, nonce, Take(in_out, n))
       IN [res |-> Ok(n + TagLen),
           buf |-> ct \o Tag(key, nonce, ct) \o Tail_n(in_out, n + TagLen)]

\* aead::open_in_place(key, nonce, ad = [], in_prefix_len = 0, in_out):
\* a nonce that is not 12 bytes or a buffer shorter than a tag is an error;
\* the tag is checked, and on a mismatch the plaintext is zeroed.
open_in_place(key, nonce, in_out) ==
  IF Len(nonce) # NonceLen \/ Len(in_out) < TagLen
  THEN [res |-> Err("Unspecified"), buf |-> in_out]
  ELSE LET n == Len(in_out) - TagLen
           ct == Take(in_out, n)
           received_tag == Tail_n(in_out, n)
       IN IF Tag(key, nonce, ct) = received_tag
          THEN [res |-> Ok(n), buf |-> Crypt(key, nonce, ct) \o received_tag]
          ELSE [res |-> Err("Unspecified"), buf |-> Zeros(n) \o received_tag]

\* ------------------------------------------------------- EncryptedBody
MsgEncKey == "EncryptedBody Enc: Unable to create key"
MsgEncSeal == "EncryptedBody: Encryption Failed"
MsgDecBase64 == "EncryptedBody Dec: Encrypted request contains invalid Base64"
MsgDecKey == "EncryptedBody Dec: Unable to create key"
MsgDecNonce == "EncryptedBody Dec: Invalid Nonce"
MsgDecFailed == "EncryptedBody Dec: Decryption Failed (is key correct?)"
MsgDecUtf8 == "EncryptedBody Dec: Invalid UTF-8"
MsgDecJson == "EncryptedBody Dec: Invalid JSON"

NoRet == [kind |-> "None", val |-> <<>>, err |-> ""]
NoBody == [nonce |-> <<>>, body_enc |-> <<>>]

\* The frame of one call of from_json or decrypt: its arguments, its
\* locals and, once it has returned, its result.
Frame(pc, json_in, key, self) ==
  [fn |-> IF pc = "enc_serialize" THEN "from_json"
          ELSE IF pc = "dec_base64" THEN "decrypt" ELSE "",
   pc |-> pc, json_in |-> json_in, key |-> key, self |-> self,
   buf |-> <<>>, nonce |-> <<>>, text |-> <<>>, ret |-> NoRet]

Return(f, r) == [f EXCEPT !.pc = "ret", !.ret = r]

\* from_json, statement by statement.  serde_json::to_string of a Value
\* has no failing case, so "EncryptedBody Enc: Unable to encode JSON" is
\* never returned.
Enc_serialize(f) ==
  [f EXCEPT !.pc = "enc_key", !.buf = as_bytes(to_string(f.json_in))]

Enc_key(f) ==
  IF IsOk(SealingKey_new(f.key)) THEN [f EXCEPT !.pc = "enc_nonce"]
  ELSE Return(f, Err(MsgEncKey))

\* let nonce: [u8; 12] = thread_rng().gen(): rng is what the generator
\* returns to this call.
Enc_nonce(f, rng) == [f EXCEPT !.pc = "enc_suffix", !.nonce = rng]

Enc_suffix(f) == [f EXCEPT !.pc = "enc_seal", !.buf = f.buf \o Zeros(TagLen)]

Enc_seal(f) ==
  LET r == seal_in_place(f.key, f.nonce, f.buf, TagLen)
  IN IF IsOk(r.res) THEN [f EXCEPT !.pc = "enc_encode", !.buf = r.buf]
     ELSE Return(f, Err(MsgEncSeal))

Enc_encode(f) ==
  Return(f, Ok([nonce |-> to_hex(f.nonce), body_enc |-> base64_encode(f.buf)]))

EncStep(f, rng) ==
  CASE f.pc = "enc_serialize" -> Enc_serialize(f)
    [] f.pc = "enc_key" -> Enc_key(f)
    [] f.pc = "enc_nonce" -> Enc_nonce(f, rng)
    [] f.pc = "enc_suffix" -> Enc_suffix(f)
    [] f.pc = "enc_seal" -> Enc_seal(f)
    [] f.pc = "enc_encode" -> Enc_encode(f)
    [] OTHER -> f

\* decrypt, statement by statement.
Dec_base64(f) ==
  LET r == base64_decode(f.self.body_enc)
  IN IF IsOk(r) THEN [f EXCEPT !.pc = "dec_key", !.buf = Unwrap(r)]
     ELSE Return(f, Err(MsgDecBase64))

Dec_key(f) ==
  IF IsOk(OpeningKey_new(f.key)) THEN [f EXCEPT !.pc = "dec_nonce"]
  ELSE Return(f, Err(MsgDecKey))

Dec_nonce(f) ==
  LET r == from_hex(f.self.nonce)
  IN IF IsOk(r) THEN [f EXCEPT !.pc = "dec_open", !.nonce = Unwrap(r)]
     ELSE Return(f, Err(MsgDecNonce))

\* The open with its error dropped: the tag no longer decides anything.
Dec_open_unchecked(f) ==
  LET r == open_in_place(f.key, f.nonce, f.buf)
  IN [f EXCEPT !.pc = "dec_pop",
               !.buf = IF IsOk(r.res) \/ Len(f.buf) < TagLen THEN r.buf
                       ELSE Crypt(f.key, f.nonce, Take(f.buf, Len(f.buf) - TagLen))
                            \o Tail_n(f.buf, Len(f.buf) - TagLen)]

Dec_open(f) ==
  LET r == open_in_place(f.key, f.nonce, f.buf)
  IN IF IsOk(r.res) THEN [f EXCEPT !.pc = "dec_pop", !.buf = r.buf]
     ELSE Return(f, Err(MsgDecFailed))

\* The tag left in the buffer.
PopTag_none(buf) == buf

\* for _ in 0..tag_len { to_decrypt.pop(); }
PopTag(buf) == IF Len(buf) >= TagLen THEN Take(buf, Len(buf) - TagLen) ELSE <<>>

Dec_pop(f) == [f EXCEPT !.pc = "dec_utf8", !.buf = PopTag(f.buf)]

Dec_utf8(f) ==
  LET r == from_utf8(f.buf)
  IN IF IsOk(r) THEN [f EXCEPT !.pc = "dec_json", !.text = Unwrap(r)]
     ELSE Return(f, Err(MsgDecUtf8))

Dec_json(f) == Return(f, Context(from_str(f.text), MsgDecJson))

DecStep(f) ==
  CASE f.pc = "dec_base64" -> Dec_base64(f)
    [] f.pc = "dec_key" -> Dec_key(f)
    [] f.pc = "dec_nonce" -> Dec_nonce(f)
    [] f.pc = "dec_open" -> Dec_open(f)
    [] f.pc = "dec_pop" -> Dec_pop(f)
    [] f.pc = "dec_utf8" -> Dec_utf8(f)
    [] f.pc = "dec_json" -> Dec_json(f)
    [] OTHER -> f

RECURSIVE RunEnc(_, _)
RunEnc(f, rng) == IF f.pc = "ret" THEN f.ret ELSE RunEnc(EncStep(f, rng), rng)

RECURSIVE RunDec(_)
RunDec(f) == IF f.pc = "ret" THEN f.ret ELSE RunDec(DecStep(f))

\* EncryptedBody::from_json(json_in, enc_key), the generator returning rng.
EncryptedBody_from_json(json_in, enc_key, rng) ==
  RunEnc(Frame("enc_serialize", json_in, enc_key, NoBody), rng)

\* EncryptedBody::decrypt(&self, dec_key)
EncryptedBody_decrypt(self, dec_key) ==
  RunDec(Frame("dec_base64", JNull, dec_key, self))

\* ------------------------------------------------------------- strings
\* The string literals of the code, as code points.
\* "nonce"
S_nonce == <<110, 111, 110, 99, 101>>
\* "body_enc"
S_body_enc == <<98, 111, 100, 121, 95, 101, 110, 99>>
\* "jsonrpc"
S_jsonrpc == <<106, 115, 111, 110, 114, 112, 99>>
\* "method"
S_method == <<109, 101, 116, 104, 111, 100>>
\* "id"
S_id == <<105, 100>>
\* "params"
S_params == <<112, 97, 114, 97, 109, 115>>
\* "result"
S_result == <<114, 101, 115, 117, 108, 116>>
\* "Ok"
S_Ok == <<79, 107>>
\* "error"
S_error == <<101, 114, 114, 111, 114>>
\* "code"
S_code == <<99, 111, 100, 101>>
\* "message"
S_message == <<109, 101, 115, 115, 97, 103, 101>>
\* "json_rpc"
S_json_rpc == <<106, 115, 111, 110, 95, 114, 112, 99>>
\* "2.0"
S_2_0 == <<50, 46, 48>>
\* "encrypted_request_v3"
S_encrypted_request_v3 ==
  <<101, 110, 99, 114, 121, 112, 116, 101, 100, 95, 114, 101, 113, 117,
    101, 115, 116, 95, 118, 51>>
\* "1"
S_1 == <<49>>
\* "internal error serialising json error response "
S_internal_error ==
  <<105, 110, 116, 101, 114, 110, 97, 108, 32, 101, 114, 114, 111, 114, 32,
    115, 101, 114, 105, 97, 108, 105, 115, 105, 110, 103, 32, 106, 115,
    111, 110, 32, 101, 114, 114, 111, 114, 32, 114, 101, 115, 112, 111,
    110, 115, 101, 32>>
\* "EncryptedResponse: JSON serialization failed"
S_ser_failed ==
  <<69, 110, 99, 114, 121, 112, 116, 101, 100, 82, 101, 115, 112, 111, 110,
    115, 101, 58, 32, 74, 83, 79, 78, 32, 115, 101, 114, 105, 97, 108, 105,
    122, 97, 116, 105, 111, 110, 32, 102, 97, 105, 108, 101, 100>>

\* --------------------------------------------------------------- RpcId
\* enum RpcId { Null, Str(String), Integer(u64) }, #[serde(untagged)]
RpcId_Null == [t |-> "Null", n |-> 0, s |-> <<>>]
RpcId_Str(str) == [t |-> "Str", n |-> 0, s |-> str]
RpcId_Integer(i) == [t |-> "Integer", n |-> i, s |-> <<>>]

\* Serialize for RpcId: untagged, the variant's content alone.
RpcId_serialize(id) ==
  CASE id.t = "Null" -> JNull
    [] id.t = "Str" -> JStr(id.s)
    [] OTHER -> JNum(id.n)

RECURSIVE AllDigits(_)
AllDigits(str) == str = <<>> \/ (IsDigit(str[1]) /\ AllDigits(Tail(str)))

\* A reader that also takes a string of digits for a number.
RpcId_deserialize_lenient(v) ==
  IF v.t = "null" THEN Ok(RpcId_Null)
  ELSE IF v.t = "str" /\ v.s # <<>> /\ AllDigits(v.s)
    THEN Ok(RpcId_Integer(ParseDigits(v.s, 1, 0).v.n))
  ELSE IF v.t = "str" THEN Ok(RpcId_Str(v.s))
  ELSE IF v.t = "num" /\ v.n >= 0 THEN Ok(RpcId_Integer(v.n))
  ELSE Err("data did not match any variant of untagged enum RpcId")

\* Deserialize for RpcId: the first variant, in declaration order, that the
\* value fits.
RpcId_deserialize(v) ==
  IF v.t = "null" THEN Ok(RpcId_Null)
  ELSE IF v.t = "str" THEN Ok(RpcId_Str(v.s))
  ELSE IF v.t = "num" /\ v.n >= 0 THEN Ok(RpcId_Integer(v.n))
  ELSE Err("data did not match any variant of untagged enum RpcId")

\* ------------------------------------------------ serde for the structs
\* serde_json::to_value of a struct: an object of its fields.
RECURSIVE Object(_, _)
Object(ks, vs) ==
  IF ks = <<>> THEN JObj(<<>>, <<>>)
  ELSE MapInsert(Object(Take(ks, Len(ks) - 1), Take(vs, Len(vs) - 1)),
                 ks[Len(ks)], vs[Len(vs)])

Field(o, k) == MapGet(o, k)
HasStr(o, k) == Field(o, k).some /\ Field(o, k).v.t = "str"

EncryptedBody_serialize(b) ==
  Object(<<S_nonce, S_body_enc>>, <<JStr(b.nonce), JStr(b.body_enc)>>)

EncryptedBody_deserialize(v) ==
  IF v.t = "obj" /\ HasStr(v, S_nonce) /\ HasStr(v, S_body_enc)
  THEN Ok([nonce |-> Field(v, S_nonce).v.s, body_enc |-> Field(v, S_body_enc).v.s])
  ELSE Err("invalid EncryptedBody")

\* HashMap<String, EncryptedBody>: keys and values, the keys kept sorted.
HashMap_new == [ks |-> <<>>, a |-> <<>>]

RECURSIVE HashMap_insert(_, _, _)
HashMap_insert(m, k, v) ==
  IF m.ks = <<>> THEN [ks |-> <<k>>, a |-> <<v>>]
  ELSE IF m.ks[1] = k THEN [ks |-> m.ks, a |-> <<v>> \o Tail(m.a)]
  ELSE IF StrLess(k, m.ks[1]) THEN [ks |-> <<k>> \o m.ks, a |-> <<v>> \o m.a]
  ELSE LET rest == HashMap_insert([ks |-> Tail(m.ks), a |-> Tail(m.a)], k, v)
       IN [ks |-> <<m.ks[1]>> \o rest.ks, a |-> <<m.a[1]>> \o rest.a]

\* HashMap::get
RECURSIVE HashMap_get(_, _)
HashMap_get(m, k) ==
  IF m.ks = <<>> THEN None
  ELSE IF m.ks[1] = k THEN Some(m.a[1])
  ELSE HashMap_get([ks |-> Tail(m.ks), a |-> Tail(m.a)], k)

HashMap_serialize(m) ==
  JObj(m.ks, [i \in 1..Len(m.a) |-> EncryptedBody_serialize(m.a[i])])

RECURSIVE HashMap_deserialize_from(_, _)
HashMap_deserialize_from(v, i) ==
  IF i > Len(v.ks) THEN Ok(HashMap_new)
  ELSE LET b == EncryptedBody_deserialize(v.a[i])
           rest == HashMap_deserialize_from(v, i + 1)
       IN IF IsOk(b) /\ IsOk(rest) THEN Ok(HashMap_insert(Unwrap(rest), v.ks[i], Unwrap(b)))
          ELSE Err("invalid result")

HashMap_deserialize(v) ==
  IF v.t = "obj" THEN HashMap_deserialize_from(v, 1) ELSE Err("invalid result")

\* ---------------------------------------------------- EncryptedRequest
\* Ok(EncryptedRequest {..}) around params?: an error of from_json is
\* returned as it is.
EncryptedRequest_around(id, params) ==
  IF IsOk(params)
  THEN Ok([jsonrpc |-> S_2_0, method |-> S_encrypted_request_v3, id |-> id,
           params |-> Unwrap(params)])
  ELSE params

EncryptedRequest_from_json(id, json_in, enc_key, rng) ==
  EncryptedRequest_around(id, EncryptedBody_from_json(json_in, enc_key, rng))

EncryptedRequest_as_json_value(self) ==
  Ok(Object(<<S_jsonrpc, S_method, S_id, S_params>>,
            <<JStr(self.jsonrpc), JStr(self.method), RpcId_serialize(self.id),
              EncryptedBody_serialize(self.params)>>))

EncryptedRequest_as_json_str(self) ==
  Ok(to_string(Unwrap(EncryptedRequest_as_json_value(self))))

\* #[derive(Deserialize)] for EncryptedRequest: from what the parser returned, and
\* from the text of a message.
EncryptedRequest_from_value(v) ==
  IF ~IsOk(v) THEN v
  ELSE IF v.val.t # "obj" \/ ~HasStr(v.val, S_jsonrpc) \/ ~HasStr(v.val, S_method)
     \/ ~Field(v.val, S_id).some \/ ~Field(v.val, S_params).some
  THEN Err("invalid EncryptedRequest")
  ELSE LET o == v.val
           id == RpcId_deserialize(Field(o, S_id).v)
           params == EncryptedBody_deserialize(Field(o, S_params).v)
       IN IF IsOk(id) /\ IsOk(params)
          THEN Ok([jsonrpc |-> Field(o, S_jsonrpc).v.s,
                   method |-> Field(o, S_method).v.s,
                   id |-> Unwrap(id), params |-> Unwrap(params)])
          ELSE Err("invalid EncryptedRequest")

EncryptedRequest_deserialize(text) == EncryptedRequest_from_value(from_str(text))

EncryptedRequest_decrypt(self, dec_key) == EncryptedBody_decrypt(self.params, dec_key)

\* --------------------------------------------------- EncryptedResponse
\* Ok(EncryptedResponse {..}) around body?: an error of from_json is
\* returned as it is.
EncryptedResponse_around(id, body) ==
  IF IsOk(body)
  THEN Ok([jsonrpc |-> S_2_0, id |-> id,
           result |-> HashMap_insert(HashMap_new, S_Ok, Unwrap(body))])
  ELSE body

EncryptedResponse_from_json(id, json_in, enc_key, rng) ==
  EncryptedResponse_around(id, EncryptedBody_from_json(json_in, enc_key, rng))

EncryptedResponse_as_json_value(self) ==
  Ok(Object(<<S_jsonrpc, S_id, S_result>>,
            <<JStr(self.jsonrpc), RpcId_serialize(self.id), HashMap_serialize(self.result)>>))

EncryptedResponse_as_json_str(self) ==
  Ok(to_string(Unwrap(EncryptedResponse_as_json_value(self))))

\* #[derive(Deserialize)] for EncryptedResponse: from what the parser returned, and
\* from the text of a message.
EncryptedResponse_from_value(v) ==
  IF ~IsOk(v) THEN v
  ELSE IF v.val.t # "obj" \/ ~HasStr(v.val, S_jsonrpc)
     \/ ~Field(v.val, S_id).some \/ ~Field(v.val, S_result).some
  THEN Err("invalid EncryptedResponse")
  ELSE LET o == v.val
           id == RpcId_deserialize(Field(o, S_id).v)
           result == HashMap_deserialize(Field(o, S_result).v)
       IN IF IsOk(id) /\ IsOk(result)
          THEN Ok([jsonrpc |-> Field(o, S_jsonrpc).v.s,
                   id |-> Unwrap(id), result |-> Unwrap(result)])
          ELSE Err("invalid EncryptedResponse")

EncryptedResponse_deserialize(text) == EncryptedResponse_from_value(from_str(text))

\* self.result.get("Ok").unwrap().decrypt(dec_key)
EncryptedResponse_decrypt(self, dec_key) ==
  LET ok == HashMap_get(self.result, S_Ok)
  IN IF ~ok.some THEN Panic("called Option::unwrap() on a None value")
     ELSE EncryptedBody_decrypt(ok.v, dec_key)

\* --------------------------------------------- EncryptionErrorResponse
EncryptionErrorResponse_new(id, code, message) ==
  [jsonrpc |-> S_2_0, id |-> id, error |-> [code |-> code, message |-> message]]

\* serde_json::to_value(self); fault is a failure of the serializer.
EncryptionErrorResponse_to_value(self, fault) ==
  IF fault THEN Err("EncryptedResponse: JSON serialization failed")
  ELSE Ok(Object(<<S_jsonrpc, S_id, S_error>>,
                 <<JStr(self.jsonrpc), RpcId_serialize(self.id),
                   Object(<<S_code, S_message>>,
                          <<JNum(self.error.code), JStr(self.error.message)>>)>>))

\* The failure handed on to the caller, as the other as_json_value do.
EncryptionErrorResponse_as_json_value_propagate(self, fault) ==
  EncryptionErrorResponse_to_value(self, fault)

\* as_json_value(&self) -> Value: the value, or the hard-coded fallback.
EncryptionErrorResponse_as_json_value(self, fault) ==
  LET res == EncryptionErrorResponse_to_value(self, fault)
  IN IF IsOk(res) THEN res
     ELSE Ok(Object(<<S_json_rpc, S_id, S_error>>,
                    <<JStr(S_2_0), JStr(S_1),
                      Object(<<S_message, S_code>>,
                             <<JStr(S_internal_error \o S_ser_failed),
                               JNum(FallbackCode)>>)>>))

\* =============================================================== state
VARIABLES
  shared_key,  \* the session key both ends were given
  last_nonce,  \* the nonce of the latest envelope made under shared_key
  pc,          \* where the exchange stands: idle, sent, tampered, forged, done
  sent,        \* what the sender was asked to send, and what happened to it
  msg,         \* the struct the sender built
  wire,        \* the message in flight
  recv,        \* the struct the receiver read
  ret,         \* what the receiver's call returned
  th,          \* per thread: the frame of the call it is in
  mem          \* the heap buffers (Vec<u8>) of the calls in progress

vars == <<shared_key, last_nonce, pc, sent, msg, wire, recv, ret, th, mem>>

\* ----------------------------------------------------------- the inputs
Key(s) == Vec([i \in 1..KeyLen |-> (s * 37 + i * 11) % 256])
Keys == {Key(s) : s \in 1..NumKeys}

\* What thread_rng().gen() can return.
NonceOf(r) == Vec([i \in 1..NonceLen |-> (r * 53 + i * 17) % 256])
Nonces == {NonceOf(r) : r \in 1..NumNonces}

\* null, true, 7, "a\"e-acute", [1,null], {"k":[-1]}
JsonValues ==
  {JNull, JBool(TRUE), JNum(7), JStr(<<97, 34, 233>>), JArr(<<JNum(1), JNull>>),
   JObj(<<<<107>>>>, <<JArr(<<JNum(0 - 1)>>)>>)}

RpcIds ==
  {RpcId_Null, RpcId_Str(<<97>>)}
  \cup {RpcId_Integer(i) : i \in 0..MaxId}
  \cup {RpcId_Str(Digits(i)) : i \in 0..MaxId}

Codes == {0 - 32002, 0, 1}
Messages == {<<>>, <<97, 34, 233>>}

\* One bit of one byte changed.
FlipBit(bytes, pos, bit) ==
  [bytes EXCEPT ![pos] =
     IF (bytes[pos] \div Pow2(bit)) % 2 = 1 THEN bytes[pos] - Pow2(bit)
     ELSE bytes[pos] + Pow2(bit)]

TamperBit(body, pos, bit) ==
  [body EXCEPT !.body_enc =
     base64_encode(FlipBit(base64_decode(body.body_enc).val, pos, bit))]

\* A body whose tag verifies under key over bytes that need not be JSON.
SealRaw(key, nonce, bytes) ==
  [nonce |-> to_hex(nonce),
   body_enc |-> base64_encode(seal_in_place(key, nonce, bytes \o Zeros(TagLen), TagLen).buf)]

\* Bodies a peer can send that no from_json produced.
ForgedBodies(key) ==
  LET good == SealRaw(key, NonceOf(1), <<49>>)
  IN {[what |-> "base64_symbol", body |-> [good EXCEPT !.body_enc = <<33, 33, 33, 33>>]],
      [what |-> "base64_length", body |-> [good EXCEPT !.body_enc = <<65, 65, 65>>]],
      [what |-> "nonce_hex", body |-> [good EXCEPT !.nonce[1] = 122]],
      [what |-> "nonce_odd", body |-> [good EXCEPT !.nonce = Take(good.nonce, 23)]],
      [what |-> "nonce_length", body |-> [good EXCEPT !.nonce = Take(good.nonce, 22)]],
      [what |-> "body_short", body |-> [good EXCEPT !.body_enc = <<65, 65, 65, 65>>]],
      [what |-> "utf8", body |-> SealRaw(key, NonceOf(1), <<255>>)],
      [what |-> "json", body |-> SealRaw(key, NonceOf(1), <<123>>)],
      [what |-> "base64_and_nonce",
       body |-> [good EXCEPT !.body_enc = <<33, 33, 33, 33>>, !.nonce[1] = 122]],
      [what |-> "nonce_and_tag",
       body |-> [TamperBit(good, 1, 0) EXCEPT !.nonce[1] = 122]],
      [what |-> "tag_and_utf8",
       body |-> TamperBit(SealRaw(key, NonceOf(1), <<255>>), 2, 0)]}

\* Responses a peer can send whose result has no "Ok".
ForgedResults(key) ==
  {[what |-> "result_empty", result |-> HashMap_new],
   [what |-> "result_other",
    result |-> HashMap_insert(HashMap_new, S_error, SealRaw(key, NonceOf(1), <<49>>))]}

NoSent ==
  [op |-> "none", id |-> RpcId_Null, json |-> JNull, rng |-> <<>>,
   how |-> "none", fault |-> FALSE, dec_key |-> <<>>]
NoWire == [kind |-> "none", body |-> NoBody, text |-> <<>>]
NoMsg == [id |-> RpcId_Null]

Idle == Frame("idle", JNull, <<>>, NoBody)

Init ==
  /\ shared_key \in Keys
  /\ last_nonce = <<>>
  /\ pc = "idle"
  /\ sent = NoSent
  /\ msg = NoMsg
  /\ wire = NoWire
  /\ recv = NoMsg
  /\ ret = NoRet
  /\ th = [t \in 1..NumThreads |-> Idle]
  /\ mem = [t \in 1..NumThreads |-> <<>>]

\* ------------------------------------------------ the exchange, call by call
\* What a sender's call leaves behind: the struct, the message on the wire,
\* the nonce now used.
Sends(op, id, v, rng, struct, nonce, message) ==
  /\ msg' = struct
  /\ wire' = message
  /\ sent' = [NoSent EXCEPT !.op = op, !.id = id, !.json = v, !.rng = rng,
                            !.how = "honest"]
  /\ last_nonce' = nonce
  /\ pc' = "sent"
  /\ UNCHANGED <<shared_key, recv, ret, th, mem>>

\* Encrypt: EncryptedBody::from_json under the session key.
Encrypt ==
  /\ pc = "idle"
  /\ \E v \in JsonValues, rng \in Nonces :
       \E r \in {EncryptedBody_from_json(v, shared_key, rng)} :
          /\ IsOk(r)
          /\ Sends("body", RpcId_Null, v, rng, r.val, r.val.nonce,
                   [kind |-> "body", body |-> r.val, text |-> <<>>])

\* WrapRequest: EncryptedRequest::from_json, then as_json_str.
WrapRequest ==
  /\ pc = "idle"
  /\ \E id \in RpcIds, v \in JsonValues, rng \in Nonces :
       \E r \in {EncryptedRequest_from_json(id, v, shared_key, rng)} :
          /\ IsOk(r)
          /\ Sends("request", id, v, rng, r.val, r.val.params.nonce,
                   [kind |-> "request", body |-> NoBody,
                    text |-> EncryptedRequest_as_json_str(r.val).val])

\* WrapResponse: EncryptedResponse::from_json, then as_json_str.
WrapResponse ==
  /\ pc = "idle"
  /\ \E id \in RpcIds, v \in JsonValues, rng \in Nonces :
       \E r \in {EncryptedResponse_from_json(id, v, shared_key, rng)} :
          /\ IsOk(r)
          /\ Sends("response", id, v, rng, r.val,
                   HashMap_get(r.val.result, S_Ok).v.nonce,
                   [kind |-> "response", body |-> NoBody,
                    text |-> EncryptedResponse_as_json_str(r.val).val])

\* The channel changes one bit of the ciphertext or of the tag.
Tamper ==
  /\ pc = "sent"
  /\ wire.kind = "body"
  /\ LET n == Len(base64_decode(wire.body.body_enc).val)
     IN \E pos \in 1..n, bit \in 0..7 :
          /\ wire' = [wire EXCEPT !.body = TamperBit(wire.body, pos, bit)]
          /\ sent' = [sent EXCEPT !.how = IF pos > n - TagLen THEN "tag_bit"
                                          ELSE "ciphertext_bit"]
  /\ pc' = "tampered"
  /\ UNCHANGED <<shared_key, last_nonce, msg, recv, ret, th, mem>>

\* A peer sends a body of its own making.
ForgeBody ==
  /\ pc = "idle"
  /\ \E f \in ForgedBodies(shared_key) :
       /\ wire' = [kind |-> "body", body |-> f.body, text |-> <<>>]
       /\ sent' = [NoSent EXCEPT !.op = "body", !.how = f.what]
  /\ pc' = "forged"
  /\ UNCHANGED <<shared_key, last_nonce, msg, recv, ret, th, mem>>

\* A peer sends a response whose result has no "Ok".
ForgeResponse ==
  /\ pc = "idle"
  /\ \E id \in RpcIds, f \in ForgedResults(shared_key) :
       /\ wire' = [kind |-> "response", body |-> NoBody,
                   text |-> EncryptedResponse_as_json_str(
                              [jsonrpc |-> S_2_0, id |-> id, result |-> f.result]).val]
       /\ sent' = [NoSent EXCEPT !.op = "response", !.id = id, !.how = f.what]
  /\ pc' = "forged"
  /\ UNCHANGED <<shared_key, last_nonce, msg, recv, ret, th, mem>>

\* What a receiver's call leaves behind.
Receives(k, struct, result) ==
  /\ recv' = struct
  /\ ret' = result
  /\ sent' = [sent EXCEPT !.dec_key = k]
  /\ pc' = "done"
  /\ UNCHANGED <<shared_key, last_nonce, msg, wire, th, mem>>

\* Decrypt: EncryptedBody::decrypt with the receiver's key.
Decrypt ==
  /\ pc \in {"sent", "tampered", "forged"}
  /\ wire.kind = "body"
  /\ \E k \in Keys : Receives(k, wire.body, EncryptedBody_decrypt(wire.body, k))

\* UnwrapRequest: the message is read, then EncryptedRequest::decrypt.
UnwrapRequest ==
  /\ pc \in {"sent", "tampered", "forged"}
  /\ wire.kind = "request"
  /\ \E r \in {EncryptedRequest_deserialize(wire.text)} :
        /\ IsOk(r)
        /\ \E k \in Keys : Receives(k, r.val, EncryptedRequest_decrypt(r.val, k))

\* UnwrapResponse: the message is read, then EncryptedResponse::decrypt.
UnwrapResponse ==
  /\ pc \in {"sent", "tampered", "forged"}
  /\ wire.kind = "response"
  /\ \E r \in {EncryptedResponse_deserialize(wire.text)} :
        /\ IsOk(r)
        /\ \E k \in Keys : Receives(k, r.val, EncryptedResponse_decrypt(r.val, k))

\* MakeErrorResponse: EncryptionErrorResponse::new, then as_json_value; the
\* value is sent as text.
MakeErrorResponse ==
  /\ pc = "idle"
  /\ \E id \in RpcIds, code \in Codes, message \in Messages, fault \in BOOLEAN :
       \E self \in {EncryptionErrorResponse_new(id, code, message)} :
       \E r \in {EncryptionErrorResponse_as_json_value(self, fault)} :
          /\ msg' = self
          /\ ret' = r
          /\ wire' = [kind |-> "error", body |-> NoBody,
                      text |-> IF IsOk(r) THEN to_string(r.val) ELSE <<>>]
          /\ sent' = [NoSent EXCEPT !.op = "error", !.id = id, !.how = "honest",
                                    !.fault = fault]
  /\ pc' = "done"
  /\ UNCHANGED <<shared_key, last_nonce, recv, th, mem>>

\* The result is taken; the next exchange starts.
Finish ==
  /\ pc = "done"
  /\ pc' = "idle"
  /\ sent' = NoSent
  /\ msg' = NoMsg
  /\ wire' = NoWire
  /\ recv' = NoMsg
  /\ ret' = NoRet
  /\ UNCHANGED <<shared_key, last_nonce, th, mem>>

Next ==
  \/ Encrypt
  \/ WrapRequest
  \/ WrapResponse
  \/ Tamper
  \/ ForgeBody
  \/ ForgeResponse
  \/ Decrypt
  \/ UnwrapRequest
  \/ UnwrapResponse
  \/ MakeErrorResponse
  \/ Finish

Spec == Init /\ [][Next]_vars

\* ------------------------------------------- the calls, thread by thread
\* Threads that share the session key call from_json and decrypt; a step
\* of a thread is one statement of the call it is in.
ConcValues == {JArr(<<JNum(1), JNull>>)}

ConcBodies(key) ==
  UNION {{good, TamperBit(good, 1, 0), [good EXCEPT !.body_enc = <<33, 33, 33, 33>>]} :
           good \in {EncryptedBody_from_json(JNum(7), key, NonceOf(1)).val}}

\* The buffer of a shared scratch area.
Slot_shared(t) == 1

\* let mut to_encrypt / let mut to_decrypt: the Vec<u8> belongs to the call.
Slot(t) == t

\* The frame of thread t with its buffer, and the frame and the heap after
\* the step.
Load(t) == [th[t] EXCEPT !.buf = mem[Slot(t)]]

Store(t, g) ==
  /\ th' = [th EXCEPT ![t] = [g EXCEPT !.buf = <<>>]]
  /\ mem' = [mem EXCEPT ![Slot(t)] = IF g.pc = "ret" THEN <<>> ELSE g.buf]
  /\ UNCHANGED <<shared_key, last_nonce, pc, sent, msg, wire, recv, ret>>


CallFromJson(t) ==
  /\ th[t].pc = "idle"
  /\ \E v \in ConcValues :
       th' = [th EXCEPT ![t] = Frame("enc_serialize", v, shared_key, NoBody)]
  /\ UNCHANGED <<shared_key, last_nonce, pc, sent, msg, wire, recv, ret, mem>>

CallDecrypt(t) ==
  /\ th[t].pc = "idle"
  /\ \E b \in ConcBodies(shared_key) :
       th' = [th EXCEPT ![t] = Frame("dec_base64", JNull, shared_key, b)]
  /\ UNCHANGED <<shared_key, last_nonce, pc, sent, msg, wire, recv, ret, mem>>

StepFromJson(t) ==
  /\ th[t].fn = "from_json" /\ th[t].pc # "ret"
  /\ \E rng \in IF th[t].pc = "enc_nonce" THEN Nonces ELSE {<<>>} :
       Store(t, EncStep(Load(t), rng))

StepDecrypt(t) ==
  /\ th[t].fn = "decrypt" /\ th[t].pc # "ret"
  /\ Store(t, DecStep(Load(t)))

ReturnCall(t) ==
  /\ th[t].pc = "ret"
  /\ th' = [th EXCEPT ![t] = Idle]
  /\ UNCHANGED <<shared_key, last_nonce, pc, sent, msg, wire, recv, ret, mem>>

NextConc ==
  \E t \in 1..NumThreads :
    \/ CallFromJson(t)
    \/ CallDecrypt(t)
    \/ StepFromJson(t)
    \/ StepDecrypt(t)
    \/ ReturnCall(t)

SpecConc == Init /\ [][NextConc]_vars

\* ============================================================ properties
Decrypting == {"body", "request", "response"}
Honest == sent.op \in Decrypting /\ sent.how = "honest"
Tampered == sent.how \in {"ciphertext_bit", "tag_bit"}

\* C1 (round trip): when a value encrypted by from_json under the session
\* key - as a bare body, inside a request or inside a response, with any id -
\* is decrypted with that same key, the call returns Ok with exactly the
\* value that was encrypted.
C1_RoundTrip ==
  (pc = "done" /\ Honest /\ sent.dec_key = shared_key)
    => (ret.kind = "Ok" /\ ret.val = sent.json)

C1_Witness ==
  /\ pc = "done" /\ Honest /\ sent.dec_key = shared_key
  /\ sent.op = "response"
  /\ sent.json = JObj(<<<<107>>>>, <<JArr(<<JNum(0 - 1)>>)>>)
  /\ ret.kind = "Ok"

\* C2 (tamper detection): when one bit of the ciphertext or of the 16-byte
\* tag of an envelope made under the session key is changed, decrypt with
\* that key returns the decryption-failed error and no value.
C2_TamperDetected ==
  (pc = "done" /\ Tampered /\ sent.dec_key = shared_key)
    => (ret.kind = "Err" /\ ret.err = MsgDecFailed /\ ret.val = <<>>)

C2_Witness ==
  /\ pc = "done" /\ sent.how = "ciphertext_bit" /\ sent.dec_key = shared_key
  /\ wire.body.nonce = msg.nonce /\ wire.body.body_enc # msg.body_enc
  /\ ret.kind = "Err"

\* C3 (wrong key): when an envelope made under the session key is decrypted
\* with a different key, the call returns the decryption-failed error and
\* no value.
C3_WrongKeyRejected ==
  (pc = "done" /\ Honest /\ sent.dec_key # shared_key)
    => (ret.kind = "Err" /\ ret.err = MsgDecFailed /\ ret.val = <<>>)

C3_Witness ==
  /\ pc = "done" /\ Honest /\ sent.dec_key # shared_key
  /\ sent.dec_key \in Keys
  /\ sent.op = "request"
  /\ ret.kind = "Err"

C5_NoPanic ==
  (pc = "done" /\ sent.how \in {"result_empty", "result_other"})
    => ret.kind = "Err"

\* C6 (id fidelity): the id of the request or response built by from_json is
\* the id passed in, variant included, and the struct read back from the
\* serialized message and then decrypted still carries that id.
C6_IdFidelity ==
  (Honest /\ sent.op \in {"request", "response"})
    => /\ msg.id = sent.id
       /\ pc = "done" => recv.id = sent.id

C6_Witness ==
  /\ pc = "done" /\ Honest /\ sent.op = "request"
  /\ sent.id = RpcId_Str(<<49>>)
  /\ recv.id = RpcId_Str(<<49>>)
  /\ ret.kind = "Ok"

\* C7 (indistinguishable failure): every error returned by decrypt, whatever
\* its cause, carries the one message a wrong key produces.
C7_OneMessage ==
  (pc = "done" /\ sent.op \in Decrypting /\ ret.kind = "Err")
    => ret.err = MsgDecFailed

\* C8 (error-response fallback): new followed by as_json_value returns a
\* value, never an error or a panic; the value's text parses back to it; when
\* the serialization of the struct fails the value carries code -32000.
C8_AlwaysAValue ==
  (pc = "done" /\ sent.op = "error")
    => /\ ret.kind = "Ok"
       /\ \E v \in {from_str(wire.text)} : v.kind = "Ok" /\ v.val = ret.val
       /\ sent.fault =>
            /\ Field(ret.val, S_error).some
            /\ Field(Field(ret.val, S_error).v, S_code) = Some(JNum(FallbackCode))

C8_Witness ==
  /\ pc = "done" /\ sent.op = "error" /\ sent.fault
  /\ ret.kind = "Ok"
  /\ msg.error.message = <<97, 34, 233>>

\* C9 (error wire format): every value as_json_value returns has a member
\* "jsonrpc" equal to "2.0", a member "id" equal to the id the response was
\* built with, and a member "error" that is an object with a number "code"
\* and a string "message".
C9_WireFormat ==
  (pc = "done" /\ sent.op = "error" /\ ret.kind = "Ok")
    => /\ Field(ret.val, S_jsonrpc) = Some(JStr(S_2_0))
       /\ Field(ret.val, S_id) = Some(RpcId_serialize(sent.id))
       /\ Field(ret.val, S_error).some
       /\ Field(ret.val, S_error).v.t = "obj"
       /\ Field(Field(ret.val, S_error).v, S_code).some
       /\ Field(Field(ret.val, S_error).v, S_code).v.t = "num"
       /\ HasStr(Field(ret.val, S_error).v, S_message)

\* The result the call of a frame returns when nothing else runs.
Alone(f) ==
  IF f.fn = "from_json" THEN EncryptedBody_from_json(f.json_in, f.key, f.nonce)
  ELSE EncryptedBody_decrypt(f.self, f.key)

\* C10 (concurrent use): in every interleaving of the steps of from_json and
\* decrypt calls made by threads sharing the session key, a call that has
\* returned has returned what it returns when run alone on its own
\* arguments, every call works with the session key, a step of one thread
\* leaves the frames of the other threads as they were, and the session key
\* never changes.
C10_ConcurrentSafe ==
  /\ [](\A t \in 1..NumThreads :
          /\ th[t].pc # "idle" => th[t].key = shared_key
          /\ th[t].pc = "ret" =>
               \E alone \in {Alone(th[t])} :
                  /\ th[t].ret.kind = alone.kind
                  /\ th[t].ret.err = alone.err
                  /\ th[t].ret.val = alone.val)
  /\ [][/\ shared_key' = shared_key
        /\ \A t, u \in 1..NumThreads :
             (t # u /\ th'[t] # th[t]) => th'[u] = th[u]]_vars

C10_Witness ==
  /\ th[1].pc = "ret" /\ th[1].fn = "decrypt" /\ th[1].ret.kind = "Ok"
  /\ th[2].pc = "enc_seal"

\* The error the first failing step of decrypt is to report for each way a
\* body can be wrong, a wrong-length nonce counting as a nonce error.
Expected(how) ==
  CASE how \in {"base64_symbol", "base64_length", "base64_and_nonce"} -> MsgDecBase64
    [] how \in {"nonce_hex", "nonce_odd", "nonce_length", "nonce_and_tag"} -> MsgDecNonce
    [] how \in {"ciphertext_bit", "tag_bit", "body_short", "tag_and_utf8"} -> MsgDecFailed
    [] how = "utf8" -> MsgDecUtf8
    [] how = "json" -> MsgDecJson
    [] OTHER -> ""

\* C11 (validation order): decrypt with the session key checks the base64 of
\* the body, then the nonce, then the tag, then UTF-8, then JSON, and returns
\* the error of the first step that fails and no value: the base64 error,
\* the nonce error for a nonce that is not hex or is not 12 bytes, the
\* decryption-failed error for a tag that does not verify, the UTF-8 error,
\* the JSON error.
C11_FirstFailure ==
  (pc = "done" /\ sent.op = "body" /\ sent.how # "honest"
     /\ sent.dec_key = shared_key)
    => (ret.kind = "Err" /\ ret.val = <<>> /\ ret.err = Expected(sent.how))

====
